---- MODULE Spec2Model ----
(***************************************************************************)
(* The deploy dialog of the flow toolbar (frontend/src/modals/DeployModal, *)
(* its two trigger components and the HTTP client configuration) as a      *)
(* state machine.                                                          *)
(*                                                                         *)
(* One dialog instance is modelled.  `variant` says which of the two       *)
(* versions of DeployModal/index.tsx is mounted ("full": the dialog with   *)
(* download/container modes, "simple": the one-button dialog) and          *)
(* `mountedBy` says which trigger component owns its open flag.            *)
(*                                                                         *)
(* Texts are sequences of string tokens; their concatenation is the JS     *)
(* string.  The empty sequence stands for the falsy values the code cannot *)
(* tell apart with its truthiness tests (null, undefined, "").             *)
(* Every event handler is one action; an async handler is one action up to *)
(* its await and one action for its continuation.                          *)
(***************************************************************************)
EXTENDS Integers, Sequences, FiniteSets, TLC

\* ---------------------------------------------------------------- bounds
\* Confirm activations (clicks on the enabled submit control) explored.
MaxConfirms == 2

\* ------------------------------------------------------------- JS values
null == <<>>
undefined == <<>>

\* A JS string value / an array value / a plain object / undefined, as they
\* occur in `error.response.data.detail` and in a notification's list.
Str(t) == [kind |-> "string", text |-> t]
Arr(items) == [kind |-> "array", items |-> items]
Obj == [kind |-> "object"]
Undef == [kind |-> "undefined"]

\* Truthiness of a JS value: undefined and "" are falsy, arrays and objects
\* are truthy.
Truthy(v) ==
  CASE v.kind = "undefined" -> FALSE
    [] v.kind = "string" -> v.text # <<>>
    [] OTHER -> TRUE

\* String.prototype.includes on token texts: pat occurs as a run of tokens.
\* (No token of the message alphabet contains part of another, so the token
\* run occurs exactly when the substring occurs in the concatenation.)
includes(text, pat) ==
  \E i \in 1..(Len(text) - Len(pat) + 1) :
     SubSeq(text, i, i + Len(pat) - 1) = pat

\* A number held in React state: parseInt may produce NaN.
Num(n) == [nan |-> FALSE, val |-> n]
NaN == [nan |-> TRUE, val |-> 0]

Digits == {"0", "1", "2", "3", "4", "5", "6", "7", "8", "9"}
DigitVal(c) ==
  CASE c = "0" -> 0 [] c = "1" -> 1 [] c = "2" -> 2 [] c = "3" -> 3
    [] c = "4" -> 4 [] c = "5" -> 5 [] c = "6" -> 6 [] c = "7" -> 7
    [] c = "8" -> 8 [] c = "9" -> 9

\* The value of the leading run of digits of s, acc being the value so far.
RECURSIVE DigitRun(_, _)
DigitRun(s, acc) ==
  IF s = <<>> \/ Head(s) \notin Digits THEN acc
  ELSE DigitRun(Tail(s), 10 * acc + DigitVal(Head(s)))

\* parseInt(e.target.value): an optional sign, then digits; NaN when no
\* digit follows.
parseInt(s) ==
  LET neg == s # <<>> /\ Head(s) = "-"
      body == IF neg THEN Tail(s) ELSE s
  IN IF body = <<>> \/ Head(body) \notin Digits THEN NaN
     ELSE Num(IF neg THEN 0 - DigitRun(body, 0) ELSE DigitRun(body, 0))

\* `${port}` in a template string.
PortText(p) == IF p.nan THEN "NaN" ELSE ToString(p.val)

\* ----------------------------------------------------------------- inputs
\* Flow identities the flow store can hold; <<>> is "no current flow"
\* (currentFlow?.id undefined, passed down as flowId ?? "").
FlowIds == {<<>>, <<"abc123">>}

\* What the user can type in the port field: clearing it, or a port.
PortInputs == {<<>>, <<"9", "0", "9", "0">>}

DockerNotAvailableText == <<"Docker", " is not available">>

\* response.data.message values (<<>>: no message).
Messages ==
  { <<>>,
    <<"Docker", " is not available">>,
    <<"Image built with ", "Docker">> }

\* response.data.container_info: absent, or a record whose api_url may be
\* missing.
NoContainer == [present |-> FALSE, api_url |-> undefined, container_name |-> undefined]
ContainerInfos ==
  { NoContainer,
    [present |-> TRUE, api_url |-> <<"http://localhost:9090">>,
     container_name |-> <<"flow-abc-container">>],
    [present |-> TRUE, api_url |-> undefined,
     container_name |-> <<"flow-abc-container">>] }

\* Bodies of a containerize response; EmptyBody is a falsy response.data.
\* A body either carries a message (an image was or was not built, nothing
\* runs) or describes the container.
EmptyBody == [empty |-> TRUE]
ContainerizeBodies ==
  {EmptyBody}
  \cup [empty : {FALSE}, image_name : {<<"flow-abc">>}, message : Messages,
        container_info : {NoContainer}]
  \cup [empty : {FALSE}, image_name : {<<"flow-abc">>}, message : {<<>>},
        container_info : ContainerInfos]

\* Bodies of a deploy response of the simple variant: null (or no parsed
\* body at all), "" or a JSON object {api_url?, docs_url?, download_url?}.
DeployBodies ==
  { [kind |-> "null"], [kind |-> "string"],
    [kind |-> "object", download_url |-> undefined,
     api_url |-> undefined, docs_url |-> undefined],
    [kind |-> "object", download_url |-> <<"/files/app.zip">>,
     api_url |-> undefined, docs_url |-> undefined],
    [kind |-> "object", download_url |-> undefined,
     api_url |-> <<"https://x/y">>, docs_url |-> <<"https://x/y", "/docs">>] }

\* error.response.data.detail of a rejection.
Details ==
  { Undef,
    Str(<<"Flow not found">>),
    Str(<<"Docker", " daemon is not running">>),
    Arr(<< <<"field required">> >>),
    Obj }

\* Rejections of api.post: a network failure has no response; error.message
\* may be empty.
Errors ==
  [response : {TRUE}, detail : Details,
   message : {<<"Request failed with status code 500">>}]
  \cup
  [response : {FALSE}, detail : {Undef},
   message : {<<"Network Error">>, <<>>}]

\* ------------------------------------------------------------------ state
VARIABLES
  variant,        \* "full" | "simple": the DeployModal version mounted
  mountedBy,      \* "DeployButton" | "FlowToolbarOptions": owner of `open`
  currentFlowId,  \* flow store: currentFlow?.id (<<>> when absent)
  open,           \* openDeployModal of the trigger = the dialog's open prop
  isDeploying,    \* dialog state
  deployedUrl,    \* dialog state (null or a text)
  docsUrl,        \* dialog state (null or a text)
  deploymentType, \* dialog state "download" | "container"
  port,           \* dialog state (a number, possibly NaN)
  autoDeploy,     \* dialog state
  containerInfo,  \* dialog state (null or a response body)
  requests,       \* log of the requests issued by the dialog, in order
  inflight,       \* indices in `requests` of the awaited, unsettled requests
  confirms,       \* number of handleDeploy invocations so far
  emitted,        \* alert store writes of the last handler, in order
  rejected,       \* the last handler threw / its promise rejected
  last            \* the trigger, submit or continuation handler that ran
                  \* last, with its input; [op |-> "ui"] after other events

dialogState ==
  <<isDeploying, deployedUrl, docsUrl, deploymentType, port, autoDeploy,
    containerInfo>>
vars ==
  <<variant, mountedBy, currentFlowId, open, isDeploying, deployedUrl, docsUrl,
    deploymentType, port, autoDeploy, containerInfo,
    requests, inflight, confirms, emitted, rejected, last>>

\* The props of the mounted dialog never change which component it is.
mount == <<variant, mountedBy>>

\* ---------------------------------------------------------- notifications
ErrorNote(title, item) == [kind |-> "error", title |-> title, list |-> <<item>>]
SuccessNote(title, list) == [kind |-> "success", title |-> title, list |-> list]

NoFlowSelected ==
  ErrorNote("Cannot deploy flow", Str(<<"No flow is currently selected">>))
DockerNotAvailable ==
  ErrorNote("Docker not available",
    Str(<<"Docker is not installed or not running. Please install Docker to use containerization features.">>))

\* The handler calls setErrorData / setSuccessData of the alert store with
\* the notifications `notes`, in this order, and throws iff `threw`.
Notify(notes, threw) ==
  /\ emitted' = notes
  /\ rejected' = threw

\* ------------------------------------------------------------------ Init
Init ==
  /\ variant \in {"full", "simple"}
  /\ mountedBy \in {"DeployButton", "FlowToolbarOptions"}
  /\ currentFlowId \in FlowIds
  /\ open = FALSE
  /\ isDeploying = FALSE
  /\ deployedUrl = null
  /\ docsUrl = null
  /\ deploymentType = "download"
  /\ port = Num(8000)
  /\ autoDeploy = FALSE
  /\ containerInfo = null
  /\ requests = <<>>
  /\ inflight = {}
  /\ confirms = 0
  /\ emitted = <<>>
  /\ rejected = FALSE
  /\ last = [op |-> "mount"]

\* ------------------------------------------------------------ flow store
\* The flow store is owned elsewhere: the current flow can change (or go
\* away) at any time.
setCurrentFlow(id) ==
  /\ id # currentFlowId
  /\ currentFlowId' = id
  /\ last' = [op |-> "ui"]
  /\ Notify(<<>>, FALSE)
  /\ UNCHANGED <<mount, open, dialogState, requests, inflight, confirms>>

\* --------------------------------------------------------------- triggers
\* `!flowId` of the handlers.
FlowIdInvalid_Never(flowId) == FALSE
FlowIdInvalid(flowId) == flowId = <<>>

\* The alert store writes of DeployButton.handleDeployClick: the error of
\* the `!flowId` branch, nothing otherwise.
handleDeployClickNotes_Always(flowId) == <<NoFlowSelected>>
handleDeployClickNotes(flowId) ==
  IF FlowIdInvalid(flowId) THEN <<NoFlowSelected>> ELSE <<>>

\* DeployButton.handleDeployClick
DeployButton_handleDeployClick ==
  /\ mountedBy = "DeployButton"
  /\ last' = [op |-> "handleDeployClick", flowId |-> currentFlowId]
  /\ Notify(handleDeployClickNotes(currentFlowId), FALSE)
  /\ IF FlowIdInvalid(currentFlowId)
       THEN UNCHANGED open
       ELSE open' = TRUE
  /\ UNCHANGED <<mount, currentFlowId, dialogState, requests, inflight,
                 confirms>>

\* FlowToolbarOptions.handleDeployClick (the direct Deploy button)
FlowToolbarOptions_handleDeployClick ==
  /\ mountedBy = "FlowToolbarOptions"
  /\ last' = [op |-> "handleDeployClick", flowId |-> currentFlowId]
  /\ open' = TRUE
  /\ Notify(<<>>, FALSE)
  /\ UNCHANGED <<mount, currentFlowId, dialogState, requests, inflight,
                 confirms>>

\* ------------------------------------------------------------ dialog view
\* `!deployedUrl ? <choice form> : <result view>`
ShowsForm == open /\ deployedUrl = null
ShowsResult == open /\ deployedUrl # null

\* The submit Button renders in the form with disabled={isDeploying}; the
\* simple variant has only the form.
SubmitEnabled_NoDisable ==
  /\ open
  /\ variant = "full" => deployedUrl = null
SubmitEnabled ==
  /\ open
  /\ variant = "full" => deployedUrl = null
  /\ ~isDeploying

\* setOpen(false): Cancel, Close, or the Dialog's onOpenChange (Esc, overlay).
setOpenFalse ==
  /\ open
  /\ open' = FALSE
  /\ last' = [op |-> "ui"]
  /\ Notify(<<>>, FALSE)
  /\ UNCHANGED <<mount, currentFlowId, dialogState, requests, inflight,
                 confirms>>

\* onClick of the two mode cards.
setDeploymentType(t) ==
  /\ variant = "full"
  /\ ShowsForm
  /\ deploymentType' = t
  /\ last' = [op |-> "ui"]
  /\ Notify(<<>>, FALSE)
  /\ UNCHANGED <<mount, currentFlowId, open, isDeploying, deployedUrl, docsUrl,
                 port, autoDeploy, containerInfo, requests, inflight, confirms>>

\* onChange of the port Input (rendered in container mode only).
setPort(text) ==
  /\ variant = "full"
  /\ ShowsForm
  /\ deploymentType = "container"
  /\ port' = parseInt(text)
  /\ last' = [op |-> "ui"]
  /\ Notify(<<>>, FALSE)
  /\ UNCHANGED <<mount, currentFlowId, open, isDeploying, deployedUrl, docsUrl,
                 deploymentType, autoDeploy, containerInfo, requests, inflight,
                 confirms>>

\* onCheckedChange of the auto-deploy Checkbox (container mode only).
setAutoDeploy(checked) ==
  /\ variant = "full"
  /\ ShowsForm
  /\ deploymentType = "container"
  /\ autoDeploy' = checked
  /\ last' = [op |-> "ui"]
  /\ Notify(<<>>, FALSE)
  /\ UNCHANGED <<mount, currentFlowId, open, isDeploying, deployedUrl, docsUrl,
                 deploymentType, port, containerInfo, requests, inflight,
                 confirms>>

\* --------------------------------------------------------------- requests
\* axios baseURL (REACT_APP_API_URL unset) and its joining with a path.
baseURL == <<"/api/v1">>
NoBody == [none |-> TRUE]
EmptyObject == [none |-> FALSE]
apiPost(path, body) ==
  [via |-> "api.post", path |-> path, url |-> baseURL \o path, body |-> body]
windowOpen(url) ==
  [via |-> "window.open", path |-> url, url |-> url, body |-> NoBody]

\* The request handleDeploy issues for a valid flow id: handleDownloadApp
\* opens the deploy endpoint in a new window, handleContainerize posts
\* {port, auto_deploy} to the containerize endpoint.
DeployRequests(type, flowId, p, auto) ==
  IF type = "download"
    THEN << windowOpen(<<"/api/v1">> \o <<"/flows/">> \o flowId \o <<"/deploy">>) >>
    ELSE << apiPost(<<"/flows/">> \o flowId \o <<"/containerize">>,
                    [port |-> p, auto_deploy |-> auto]) >>

\* Indices the sequence `new` gets when appended to the log, restricted to
\* the awaited (api.post) requests.
Awaited(new) ==
  { Len(requests) + k : k \in { j \in 1..Len(new) : new[j].via = "api.post" } }

\* ----------------------------------------------- full variant: submission
\* setDeployedUrl("FastAPI app download initiated")
DownloadedUrl == <<"FastAPI app download initiated">>

\* handleDownloadApp: synchronous; setIsDeploying(true) and the finally's
\* setIsDeploying(false) are batched into one render.
handleDownloadApp ==
  IF FlowIdInvalid(currentFlowId)
    THEN /\ Notify(<<ErrorNote("Cannot deploy flow", Str(<<"Flow ID is not valid">>))>>, FALSE)
         /\ UNCHANGED <<isDeploying, deployedUrl, docsUrl, containerInfo,
                        requests, inflight>>
    ELSE LET new == DeployRequests(deploymentType, currentFlowId, port, autoDeploy)
         IN /\ requests' = requests \o new
            /\ inflight' = inflight \cup Awaited(new)
            /\ deployedUrl' = DownloadedUrl
            /\ docsUrl' = <<"See README.md in the downloaded zip file">>
            /\ Notify(<<SuccessNote("Flow deployed successfully", undefined)>>, FALSE)
            /\ isDeploying' = FALSE
            /\ UNCHANGED containerInfo

\* handleContainerize up to `await api.post(...)`.
handleContainerize ==
  IF FlowIdInvalid(currentFlowId)
    THEN /\ Notify(<<ErrorNote("Cannot containerize flow", Str(<<"Flow ID is not valid">>))>>, FALSE)
         /\ UNCHANGED <<isDeploying, deployedUrl, docsUrl, containerInfo,
                        requests, inflight>>
    ELSE LET new == DeployRequests(deploymentType, currentFlowId, port, autoDeploy)
         IN /\ isDeploying' = TRUE
            /\ requests' = requests \o new
            /\ inflight' = inflight \cup Awaited(new)
            /\ Notify(<<>>, FALSE)
            /\ UNCHANGED <<deployedUrl, docsUrl, containerInfo>>

\* handleDeploy, the onClick of the submit Button.
handleDeploy ==
  /\ variant = "full"
  /\ SubmitEnabled
  /\ confirms < MaxConfirms
  /\ confirms' = confirms + 1
  /\ last' = [op |-> "handleDeploy", flowId |-> currentFlowId,
              type |-> deploymentType]
  /\ IF deploymentType = "download" THEN handleDownloadApp
                                    ELSE handleContainerize
  /\ UNCHANGED <<mount, currentFlowId, open, deploymentType, port, autoDeploy>>

\* ------------------------------------- full variant: after the await
\* response.data.message && response.data.message.includes("Docker is not available")
IsDockerMessage(data) ==
  /\ data.message # <<>>
  /\ includes(data.message, DockerNotAvailableText)

\* `${x}` of a possibly undefined text.
Render(x) == IF x = undefined THEN <<"undefined">> ELSE x

\* response.data.container_info?.api_url
ApiUrlOf(data) ==
  IF data.container_info.present THEN data.container_info.api_url ELSE undefined

DeployedUrlOf(data) ==
  IF data.container_info.present /\ data.container_info.api_url # undefined
    THEN data.container_info.api_url
    ELSE <<"Docker image: ">> \o Render(data.image_name)

DocsUrlOf(auto, data) ==
  IF auto THEN Render(ApiUrlOf(data)) \o <<"/docs">> ELSE null

\* finally { setIsDeploying(false) }: runs on every way out of the try.
IsDeployingFinally_SkipOnReturn(how) == how = "return"
IsDeployingFinally(how) == FALSE

\* The continuation of handleContainerize when api.post resolves with `data`;
\* autoDeploy is the value the handler's closure captured at confirm time.
containerizeResolved(i, data) ==
  /\ variant = "full"
  /\ i \in inflight
  /\ requests[i].via = "api.post"
  /\ inflight' = inflight \ {i}
  /\ last' = [op |-> "containerize.resolved", req |-> i, data |-> data]
  /\ IF data = EmptyBody
       THEN /\ Notify(<<SuccessNote("Flow containerized successfully", undefined)>>, FALSE)
            /\ isDeploying' = IsDeployingFinally("end")
            /\ UNCHANGED <<containerInfo, deployedUrl, docsUrl, open>>
       ELSE IF IsDockerMessage(data)
       THEN /\ containerInfo' = data
            /\ Notify(<<DockerNotAvailable>>, FALSE)
            /\ open' = FALSE
            /\ isDeploying' = IsDeployingFinally("return")
            /\ UNCHANGED <<deployedUrl, docsUrl>>
       ELSE /\ containerInfo' = data
            /\ deployedUrl' = DeployedUrlOf(data)
            /\ docsUrl' = DocsUrlOf(requests[i].body.auto_deploy, data)
            /\ Notify(<<SuccessNote("Flow containerized successfully", undefined)>>, FALSE)
            /\ isDeploying' = IsDeployingFinally("end")
            /\ UNCHANGED open
  /\ UNCHANGED <<mount, currentFlowId, deploymentType, port, autoDeploy,
                 requests, confirms>>

\* error?.response?.data?.detail
DetailOf(err) == IF err.response THEN err.detail ELSE Undef

\* detail?.includes("Docker") throws a TypeError when detail is a value
\* without an includes method (a plain object).
IncludesThrows(detail) == detail.kind = "object"

\* detail?.includes("Docker"), for a detail on which it does not throw.
DetailIncludesDocker_Message(err) == includes(err.message, <<"Docker">>)
DetailIncludesDocker(err) ==
  LET detail == DetailOf(err)
  IN CASE detail.kind = "string" -> includes(detail.text, <<"Docker">>)
       [] detail.kind = "array" ->
            \E k \in 1..Len(detail.items) : detail.items[k] = <<"Docker">>
       [] OTHER -> FALSE

\* error?.response?.data?.detail || error?.message || "Unknown error occurred"
ErrorListItem(err) ==
  IF Truthy(DetailOf(err)) THEN DetailOf(err)
  ELSE IF err.message # <<>> THEN Str(err.message)
  ELSE Str(<<"Unknown error occurred">>)

\* The continuation of handleContainerize when api.post rejects with `err`.
containerizeRejected(i, err) ==
  /\ variant = "full"
  /\ i \in inflight
  /\ requests[i].via = "api.post"
  /\ inflight' = inflight \ {i}
  /\ last' = [op |-> "containerize.rejected", req |-> i, err |-> err]
  /\ IF IncludesThrows(DetailOf(err))
       THEN /\ Notify(<<>>, TRUE)
       ELSE IF DetailIncludesDocker(err)
       THEN /\ Notify(<<DockerNotAvailable>>, FALSE)
       ELSE /\ Notify(<<ErrorNote("Failed to containerize flow", ErrorListItem(err))>>, FALSE)
  /\ isDeploying' = IsDeployingFinally("catch")
  /\ UNCHANGED <<mount, currentFlowId, open, deployedUrl, docsUrl,
                 deploymentType, port, autoDeploy, containerInfo, requests,
                 confirms>>

\* ------------------------------------------------------ simple variant
\* handleDeploy of the one-button dialog, up to `await api.post(...)`.
handleDeploySimple ==
  /\ variant = "simple"
  /\ SubmitEnabled
  /\ confirms < MaxConfirms
  /\ confirms' = confirms + 1
  /\ last' = [op |-> "handleDeploy", flowId |-> currentFlowId,
              type |-> "download"]
  /\ IF FlowIdInvalid(currentFlowId)
       THEN /\ Notify(<<ErrorNote("Cannot deploy flow", Str(<<"Flow ID is not valid">>))>>, FALSE)
            /\ UNCHANGED <<isDeploying, requests, inflight>>
       ELSE LET new == << apiPost(<<"/api/v1/flows/">> \o currentFlowId \o <<"/deploy">>,
                                  EmptyObject) >>
            IN /\ isDeploying' = TRUE
               /\ requests' = requests \o new
               /\ inflight' = inflight \cup Awaited(new)
               /\ Notify(<<>>, FALSE)
  /\ UNCHANGED <<mount, currentFlowId, open, deployedUrl, docsUrl,
                 deploymentType, port, autoDeploy, containerInfo>>

DeployedNote ==
  SuccessNote("Flow deployed successfully",
              <<Str(<<"Your flow has been packaged as a FastAPI application">>)>>)

\* The continuation when api.post resolves: the success notification is
\* written first; reading download_url of a null body throws a TypeError
\* that the handler's own catch turns into an error notification.  A
\* truthy download_url is opened in a new window: one more request of the
\* dialog, which nothing awaits.
deployResolved(i, data) ==
  /\ variant = "simple"
  /\ i \in inflight
  /\ inflight' = inflight \ {i}
  /\ IF data.kind = "null"
       THEN /\ Notify(<<DeployedNote,
                        ErrorNote("Failed to deploy flow",
                          Str(<<"Cannot read properties of null (reading 'download_url')">>))>>,
                      FALSE)
            /\ last' = [op |-> "deploy.resolved", req |-> i, data |-> data,
                        opened |-> undefined]
            /\ UNCHANGED <<open, requests>>
       ELSE LET url == IF data.kind = "object"
                         THEN data.download_url ELSE undefined
            IN /\ Notify(<<DeployedNote>>, FALSE)
               /\ last' = [op |-> "deploy.resolved", req |-> i, data |-> data,
                           opened |-> url]
               /\ requests' = IF Truthy(Str(url))
                                THEN Append(requests, windowOpen(url))
                                ELSE requests
               /\ open' = FALSE
  /\ isDeploying' = FALSE
  /\ UNCHANGED <<mount, currentFlowId, deployedUrl, docsUrl, deploymentType,
                 port, autoDeploy, containerInfo, confirms>>

\* The continuation when api.post rejects: error.message || "Unknown error
\* occurred"; the embedded detail is not read.
deployRejected(i, err) ==
  /\ variant = "simple"
  /\ i \in inflight
  /\ inflight' = inflight \ {i}
  /\ last' = [op |-> "deploy.rejected", req |-> i, err |-> err]
  /\ Notify(<<ErrorNote("Failed to deploy flow",
                IF err.message # <<>> THEN Str(err.message)
                ELSE Str(<<"Unknown error occurred">>))>>, FALSE)
  /\ isDeploying' = FALSE
  /\ UNCHANGED <<mount, currentFlowId, open, deployedUrl, docsUrl,
                 deploymentType, port, autoDeploy, containerInfo, requests,
                 confirms>>

\* ------------------------------------------- full variant: result view
\* `${x}` of a possibly null text.
RenderNull(x) == IF x = null THEN <<"null">> ELSE x

\* The three code samples, templated with the displayed URL.
pythonCode ==
  <<"\nimport requests\n\n# Replace with your deployed API URL\nAPI_URL = \"">>
  \o RenderNull(deployedUrl) \o <<"/run">>
  \o <<"\"\n\ndef query_flow(input_value, input_type=\"text\"):\n    response = requests.post(\n        API_URL,\n        json={\n            \"input\": input_value,\n            \"input_type\": input_type,\n            \"tweaks\": {}\n        }\n    )\n    return response.json()\n\n# Example usage\nresult = query_flow(\"What is machine learning?\")\nprint(result)\n">>
javascriptCode ==
  <<"\n// Replace with your deployed API URL\nconst API_URL = \"">>
  \o RenderNull(deployedUrl) \o <<"/run">>
  \o <<"\";\n\nasync function queryFlow(inputValue, inputType = \"text\") {\n  const response = await fetch(API_URL, {\n    method: 'POST',\n    headers: {\n      'Content-Type': 'application/json',\n    },\n    body: JSON.stringify({\n      input: inputValue,\n      input_type: inputType,\n      tweaks: {}\n    })\n  });\n  \n  return await response.json();\n}\n\n// Example usage\nqueryFlow(\"What is machine learning?\")\n  .then(result => console.log(result))\n  .catch(error => console.error('Error:', error));\n">>
curlCode ==
  <<"\ncurl -X POST \"">>
  \o RenderNull(deployedUrl) \o <<"/run">>
  \o <<"\" \\\n  -H \"Content-Type: application/json\" \\\n  -d '{\n    \"input\": \"What is machine learning?\",\n    \"input_type\": \"text\",\n    \"tweaks\": {}\n  }'\n">>

\* dockerRunCommand: built from the port state of the current render.
dockerRunCommand ==
  IF containerInfo # null
    THEN <<"\n", "docker run -d -p ", PortText(port), ":8000 --name ">>
         \o Render(containerInfo.image_name) \o <<"-container ">>
         \o Render(containerInfo.image_name) \o <<"\n">>
    ELSE <<>>

\* The "Docker Information" panel and, in it, the "Run Container" block.
ShowsContainerPanel == ShowsResult /\ containerInfo # null

\* The Deployment Instructions block of the container panel: the steps, with
\* the address `http://localhost:{port}`, and the tag/push commands.  It is
\* rendered with the panel only: in the open dialog's result view, under
\* `containerInfo &&`.
deploymentInstructions ==
  IF ShowsContainerPanel
    THEN <<"To deploy your containerized flow:",
           "Make sure Docker is installed and running",
           "Run the container using the command above",
           "Access the API at ", "http://localhost:", PortText(port),
           "For cloud deployment, push the image to Docker Hub:",
           "# Tag the image (replace 'yourusername')\ndocker tag ">>
         \o Render(containerInfo.image_name) \o <<" yourusername/">>
         \o Render(containerInfo.image_name)
         \o <<":latest\n\n# Push to Docker Hub\ndocker push yourusername/">>
         \o Render(containerInfo.image_name) \o <<":latest">>
    ELSE <<>>
ShowsRunCommand == ShowsContainerPanel /\ ~containerInfo.container_info.present

\* generateDeploymentScript: the script as its sequence of lines (the file is
\* the lines joined by newlines).
generateDeploymentScript_NoTag(imageName, p) ==
  << <<"#!/bin/bash">>,
     <<"docker run -d -p ", PortText(p), ":8000 --name ">>
       \o Render(imageName) \o <<"-container ">> \o Render(imageName),
     <<"# docker tag latest">> >>
generateDeploymentScript(imageName, p) ==
  << <<"#!/bin/bash">>,
     <<"# Langflow Docker Deployment Script">>,
     <<"# Generated automatically for ">> \o Render(imageName),
     <<>>,
     <<"# Check if Docker is installed">>,
     <<"if ! command -v docker &> /dev/null; then">>,
     <<"    echo \"Docker is not installed. Please install Docker first.\"">>,
     <<"    exit 1">>,
     <<"fi">>,
     <<>>,
     <<"# Check if Docker is running">>,
     <<"if ! docker info &> /dev/null; then">>,
     <<"    echo \"Docker is not running. Please start Docker first.\"">>,
     <<"    exit 1">>,
     <<"fi">>,
     <<>>,
     <<"# Pull the image if it exists in Docker Hub (uncomment and modify)">>,
     <<"# docker pull yourusername/">> \o Render(imageName) \o <<":latest">>,
     <<>>,
     <<"# Run the container">>,
     <<"echo \"Starting container...\"">>,
     <<"docker run -d -p ", PortText(p), ":8000 --name ">>
       \o Render(imageName) \o <<"-container ">> \o Render(imageName),
     <<>>,
     <<"# Check if the container is running">>,
     <<"if [ $? -eq 0 ]; then">>,
     <<"    echo \"Container started successfully!\"">>,
     <<"    echo \"API is available at: http://localhost:", PortText(p), "\"">>,
     <<"    echo \"API documentation: http://localhost:", PortText(p), "/docs\"">>,
     <<"else">>,
     <<"    echo \"Failed to start container. Check Docker logs for more information.\"">>,
     <<"    exit 1">>,
     <<"fi">>,
     <<>>,
     <<"# Optional: Push to Docker Hub (uncomment and modify)">>,
     <<"# echo \"Pushing image to Docker Hub...\"">>,
     <<"# docker tag ">> \o Render(imageName) \o <<" yourusername/">>
       \o Render(imageName) \o <<":latest">>,
     <<"# docker push yourusername/">> \o Render(imageName) \o <<":latest">>,
     <<>>,
     <<"echo \"Deployment complete!\"">>,
     <<>> >>

\* downloadDeploymentScript, the onClick of "Download Deployment Script"
\* (rendered in the Docker Information panel); the saved file is recorded
\* in `last`.
downloadDeploymentScript ==
  /\ variant = "full"
  /\ ShowsContainerPanel
  /\ IF containerInfo = null
       THEN /\ Notify(<<ErrorNote("Cannot download script",
                          Str(<<"Container information not available">>))>>, FALSE)
            /\ last' = [op |-> "downloadDeploymentScript", script |-> <<>>]
       ELSE /\ Notify(<<SuccessNote("Deployment script downloaded", undefined)>>, FALSE)
            /\ last' = [op |-> "downloadDeploymentScript",
                        script |-> generateDeploymentScript(containerInfo.image_name, port)]
  /\ UNCHANGED <<mount, currentFlowId, open, dialogState, requests, inflight,
                 confirms>>

\* What navigator.clipboard.writeText can do: the promise resolves, the
\* promise rejects (permission denied, document not focused), or
\* navigator.clipboard is undefined (insecure context) and the call throws.
ClipboardOutcomes == {"written", "denied", "unavailable"}

\* onClick of the Copy Button: writeText(deployedUrl || "") is neither
\* awaited nor caught; setSuccessData runs right after the call returns.
copyOnClick(outcome) ==
  /\ variant = "full"
  /\ ShowsResult
  /\ last' = [op |-> "copy", text |-> deployedUrl, clipboard |-> outcome]
  /\ Notify(IF outcome = "unavailable" THEN <<>>
            ELSE <<SuccessNote("URL copied", undefined)>>,
            outcome # "written")
  /\ UNCHANGED <<mount, currentFlowId, open, dialogState, requests, inflight,
                 confirms>>

\* ------------------------------------------------------------------ Next
Next ==
  \/ \E id \in FlowIds : setCurrentFlow(id)
  \/ DeployButton_handleDeployClick
  \/ FlowToolbarOptions_handleDeployClick
  \/ setOpenFalse
  \/ \E t \in {"download", "container"} : setDeploymentType(t)
  \/ \E text \in PortInputs : setPort(text)
  \/ \E checked \in BOOLEAN : setAutoDeploy(checked)
  \/ handleDeploy
  \/ \E i \in inflight, data \in ContainerizeBodies : containerizeResolved(i, data)
  \/ \E i \in inflight, err \in Errors : containerizeRejected(i, err)
  \/ downloadDeploymentScript
  \/ \E outcome \in ClipboardOutcomes : copyOnClick(outcome)
  \/ handleDeploySimple
  \/ \E i \in inflight, data \in DeployBodies : deployResolved(i, data)
  \/ \E i \in inflight, err \in Errors : deployRejected(i, err)

Spec == Init /\ [][Next]_vars

\* ================================================================ claims
\* A submission has reached a terminal state (Succeeded or Failed): a request
\* was issued and is no longer awaited.
SomeSettled == Len(requests) > Cardinality(inflight)

\* C1: at most one deploy/containerize request of the dialog is in flight at
\* any time, whatever the interleaving of confirms, mode switches, field
\* edits, close/reopen and response arrivals.
C1_AtMostOneInFlight == Cardinality(inflight) <= 1

\* A containerize request is in flight while the reopened dialog shows the
\* form again with the mode switched to download.
C1_Witness ==
  /\ variant = "full"
  /\ inflight # {}
  /\ ShowsForm
  /\ deploymentType = "download"
  /\ last.op = "handleDeployClick"

\* C2: a response that arrives while the dialog is closed is discarded: it
\* leaves deployedUrl, docsUrl and containerInfo as they were.
C2_LateResponseDiscarded ==
  [][(~open /\ inflight' # inflight)
       => UNCHANGED <<deployedUrl, docsUrl, containerInfo>>]_vars

\* C3: the submit control is disabled while a request is in flight, and the
\* in-progress flag falls exactly in the steps in which a request settles,
\* whatever the outcome.
C3_DisabledUntilSettle ==
  /\ [](inflight # {} => (isDeploying /\ ~SubmitEnabled))
  /\ [][(isDeploying /\ ~isDeploying')
          <=> (inflight' # inflight /\ inflight' \subseteq inflight)]_vars

\* A request has just settled as Docker-unavailable through the response
\* message, and the control is enabled again.
C3_Witness ==
  /\ last.op = "containerize.resolved"
  /\ last.data # EmptyBody
  /\ includes(last.data.message, DockerNotAvailableText)
  /\ ~isDeploying
  /\ inflight = {}

\* C4: every trigger, activated while no flow is selected, writes the
\* "Cannot deploy flow" / "No flow is currently selected" error and leaves
\* the dialog-open flag as it was.
C4_TriggerRefusesWithoutFlow ==
  [][(last'.op = "handleDeployClick" /\ last'.flowId = <<>>)
       => (open' = open /\ emitted' = <<NoFlowSelected>>)]_vars

\* C5: a confirm with an empty flow id issues no request, writes one error
\* notification, and leaves the in-progress flag and the result state
\* unchanged, in either mode.
C5_EmptyFlowIdRefused ==
  [][(confirms' = confirms + 1 /\ currentFlowId = <<>>)
       => /\ requests' = requests
          /\ inflight' = inflight
          /\ isDeploying' = isDeploying
          /\ UNCHANGED <<deployedUrl, docsUrl, containerInfo>>
          /\ Len(emitted') = 1
          /\ emitted'[1].kind = "error"]_vars

\* The full dialog was confirmed in container mode with an empty flow id.
C5_Witness ==
  /\ variant = "full"
  /\ last.op = "handleDeploy"
  /\ last.flowId = <<>>
  /\ last.type = "container"
  /\ emitted # <<>>

\* C6: reopening the dialog after a submission settled shows the form again:
\* displayed URL, docs URL and container metadata of the previous cycle are
\* gone.
C6_ReopenDiscardsResult ==
  [][(~open /\ open' /\ SomeSettled)
       => (deployedUrl' = null /\ docsUrl' = null /\ containerInfo' = null)]_vars

\* C7: reopening the dialog after a submission settled resets mode, port and
\* auto-deploy to download, 8000 and false.
C7_ReopenResetsFields ==
  [][(~open /\ open' /\ SomeSettled)
       => (deploymentType' = "download" /\ port' = Num(8000)
           /\ autoDeploy' = FALSE)]_vars

\* C8: the request log (api.post and window.open calls of the dialog) grows
\* only in a confirm step, an accepted confirm (non-empty flow id) appends
\* exactly one request, and so the number of requests never exceeds the
\* number of confirms.
C8_OneRequestPerConfirm ==
  /\ [](Len(requests) <= confirms)
  /\ [][/\ requests' # requests => confirms' = confirms + 1
        /\ (confirms' = confirms + 1 /\ currentFlowId # <<>>)
             => /\ Len(requests') = Len(requests) + 1
                /\ SubSeq(requests', 1, Len(requests)) = requests]_vars

\* The settled outcome read literally: a response message, or an error
\* detail string, that contains "Docker".
MentionsDocker(l) ==
  \/ /\ l.op = "containerize.resolved"
     /\ l.data # EmptyBody
     /\ includes(l.data.message, <<"Docker">>)
  \/ /\ l.op = "containerize.rejected"
     /\ l.err.response
     /\ l.err.detail.kind = "string"
     /\ includes(l.err.detail.text, <<"Docker">>)

\* C9 as stated: every containerize outcome whose response message or error
\* detail contains "Docker" writes only the "Docker not available" error and
\* leaves the dialog without a result.
C9_AnyDockerMention ==
  MentionsDocker(last)
    => (emitted = <<DockerNotAvailable>> /\ deployedUrl = null)

\* The outcomes the code treats as Docker-unavailable: a response message
\* containing "Docker is not available", or an error detail string
\* containing "Docker".
SignalsDockerUnavailable(l) ==
  \/ /\ l.op = "containerize.resolved"
     /\ l.data # EmptyBody
     /\ includes(l.data.message, <<"Docker", " is not available">>)
  \/ /\ l.op = "containerize.rejected"
     /\ l.err.response
     /\ l.err.detail.kind = "string"
     /\ includes(l.err.detail.text, <<"Docker">>)

\* C9 amended: every containerize outcome whose response message contains
\* "Docker is not available", or whose error detail is a string containing
\* "Docker", writes only the "Docker not available" error and leaves the
\* dialog without a result.
C9_DockerUnavailable ==
  SignalsDockerUnavailable(last)
    => (emitted = <<DockerNotAvailable>> /\ deployedUrl = null)

\* A rejection whose detail mentions Docker has just been handled.
C9_Witness ==
  /\ last.op = "containerize.rejected"
  /\ SignalsDockerUnavailable(last)
  /\ emitted = <<DockerNotAvailable>>

\* C10: every rejection is surfaced as one error notification that carries
\* the embedded detail when there is one and the failure message otherwise
\* (the dedicated Docker notification apart), and the handler does not throw.
C10_FailureSurfaced ==
  last.op \in {"containerize.rejected", "deploy.rejected"}
    => /\ ~rejected
       /\ Len(emitted) = 1
       /\ emitted[1].kind = "error"
       /\ \/ emitted[1] = DockerNotAvailable
          \/ /\ Truthy(DetailOf(last.err))
             /\ emitted[1].list = <<DetailOf(last.err)>>
          \/ /\ ~Truthy(DetailOf(last.err))
             /\ last.err.message # <<>> => emitted[1].list = <<Str(last.err.message)>>

\* Number of success notifications among `notes`.
SuccessCount(notes) ==
  Cardinality({k \in 1..Len(notes) : notes[k].kind = "success"})

\* A download-mode submission has just succeeded: the full dialog's
\* handleDownloadApp ran for a valid flow id, or the one-button dialog's
\* request resolved.
DownloadSucceeded ==
  \/ /\ variant = "full"
     /\ last.op = "handleDeploy"
     /\ last.type = "download"
     /\ last.flowId # <<>>
  \/ last.op = "deploy.resolved"

\* C11: after every successful download-mode submission the result
\* view is shown and exactly one success notification was written.
C11_DownloadShowsResult ==
  DownloadSucceeded => (ShowsResult /\ SuccessCount(emitted) = 1)

\* C12: for every containerize response, "Flow containerized successfully"
\* is written exactly when the dialog then holds a deployment result (a
\* displayed URL and the container metadata).
C12_SuccessIffResult ==
  last.op = "containerize.resolved"
    => ((\E k \in 1..Len(emitted) :
            emitted[k].title = "Flow containerized successfully")
        <=> (deployedUrl # null /\ containerInfo # null))

\* C13: when the deploy response is JSON with api_url and docs_url, the
\* displayed URL is api_url, the docs link is docs_url and each code sample
\* contains api_url followed by "/run".
C13_JsonResponseDisplayed ==
  (/\ last.op = "deploy.resolved"
   /\ last.data.kind = "object"
   /\ last.data.api_url # undefined)
    => /\ deployedUrl = last.data.api_url
       /\ docsUrl = last.data.docs_url
       /\ includes(pythonCode, last.data.api_url \o <<"/run">>)
       /\ includes(javascriptCode, last.data.api_url \o <<"/run">>)
       /\ includes(curlCode, last.data.api_url \o <<"/run">>)

\* A text shows a URL when one of its tokens is a URL of the inputs or the
\* scheme-and-host start of one.
UrlTokens == {"http://localhost:9090", "https://x/y", "http://localhost:"}
NoLiveUrl(text) == \A k \in 1..Len(text) : text[k] \notin UrlTokens

\* A container-mode submission confirmed with auto-deploy off has just
\* succeeded with a body that carries an image name and no container_info.
C14_Case ==
  /\ last.op = "containerize.resolved"
  /\ last.data # EmptyBody
  /\ ~includes(last.data.message, <<"Docker", " is not available">>)
  /\ ~last.data.container_info.present
  /\ ~requests[last.req].body.auto_deploy

\* C14: in that case, with P the port configured at the confirm (the one
\* sent with auto-deploy off) and I the returned image name, the result view
\* has the Run Container block with
\* `docker run -d -p P:8000 --name I-container I`, no docs link, and no URL
\* in the URL display, the code samples or the deployment instructions.
C14_RunCommandNoLiveUrl ==
  C14_Case
    => /\ deployedUrl # null
       /\ containerInfo # null
       /\ open => ShowsRunCommand
       /\ includes(dockerRunCommand,
                   <<"docker run -d -p ",
                     PortText(requests[last.req].body.port),
                     ":8000 --name ">>
                   \o last.data.image_name \o <<"-container ">>
                   \o last.data.image_name)
       /\ docsUrl = null
       /\ NoLiveUrl(deployedUrl)
       /\ NoLiveUrl(pythonCode)
       /\ NoLiveUrl(javascriptCode)
       /\ NoLiveUrl(curlCode)
       /\ NoLiveUrl(deploymentInstructions)

\* C15: every containerize request carries a port that is a positive integer.
C15_BodyPortPositive ==
  \A i \in 1..Len(requests) :
    (variant = "full" /\ requests[i].via = "api.post")
      => (~requests[i].body.port.nan /\ requests[i].body.port.val > 0)

\* The lines of a script that start with the token `first`.
LinesStarting(script, first) ==
  {k \in 1..Len(script) : script[k] # <<>> /\ script[k][1] = first}

\* C16 as stated: the downloaded script has a `docker run` line and a
\* `docker tag` line, and each contains the returned image name and the
\* configured port.
C16_ImageAndPortInBothLines ==
  last.op = "downloadDeploymentScript"
    => /\ LinesStarting(last.script, "docker run -d -p ") # {}
       /\ LinesStarting(last.script, "# docker tag ") # {}
       /\ \A k \in LinesStarting(last.script, "docker run -d -p ")
                   \cup LinesStarting(last.script, "# docker tag ") :
            /\ includes(last.script[k], containerInfo.image_name)
            /\ includes(last.script[k], <<PortText(port)>>)

\* C16 amended: the downloaded script has a `docker run` line and a
\* `docker tag` line, each contains the returned image name, and the
\* `docker run` line contains the configured port.
C16_ImageInBothPortInRun ==
  last.op = "downloadDeploymentScript"
    => /\ LinesStarting(last.script, "docker run -d -p ") # {}
       /\ LinesStarting(last.script, "# docker tag ") # {}
       /\ \A k \in LinesStarting(last.script, "docker run -d -p ")
                   \cup LinesStarting(last.script, "# docker tag ") :
            includes(last.script[k], containerInfo.image_name)
       /\ \A k \in LinesStarting(last.script, "docker run -d -p ") :
            includes(last.script[k], <<PortText(port)>>)

\* The script was downloaded after a container submission on port 9090.
C16_Witness ==
  /\ last.op = "downloadDeploymentScript"
  /\ port = Num(9090)
  /\ deploymentType = "container"
  /\ containerInfo.image_name = <<"flow-abc">>

\* The handler that just ran handled a failed request: a rejection, or a
\* response whose message says Docker is not available.
DockerMessageSettled(l) ==
  /\ l.op = "containerize.resolved"
  /\ l.data # EmptyBody
  /\ includes(l.data.message, <<"Docker", " is not available">>)
RejectionSettled(l) == l.op \in {"containerize.rejected", "deploy.rejected"}

\* C17: no failed submission changes the dialog's open flag.
C17_FailureKeepsOpen ==
  [][(inflight' # inflight
      /\ (RejectionSettled(last') \/ DockerMessageSettled(last')))
       => open' = open]_vars

\* C18: every request goes through the HTTP client and resolves to the
\* base URL followed once by /flows/{flowId}/deploy or
\* /flows/{flowId}/containerize.
C18_BaseUrlOnce ==
  \A i \in 1..Len(requests) :
    /\ requests[i].via = "api.post"
    /\ \E f \in FlowIds \ {<<>>}, op \in {"/deploy", "/containerize"} :
         requests[i].url = baseURL \o <<"/flows/">> \o f \o <<op>>

\* C19: the Copy control writes the displayed URL to the clipboard, writes
\* the "URL copied" notification, and nothing is thrown or left rejected.
C19_CopyNeverThrows ==
  last.op = "copy"
    => /\ last.text = deployedUrl
       /\ emitted = <<SuccessNote("URL copied", undefined)>>
       /\ ~rejected

\* A submission has just settled.
SubmissionSettled ==
  \/ last.op \in {"containerize.resolved", "containerize.rejected",
                  "deploy.resolved", "deploy.rejected"}
  \/ /\ variant = "full"
     /\ last.op = "handleDeploy"
     /\ last.type = "download"
     /\ last.flowId # <<>>

\* C20: every settled submission writes exactly one outcome notification.
C20_ExactlyOneOutcome == SubmissionSettled => Len(emitted) = 1

\* A container-mode submission has just succeeded: the response has a body
\* and its message does not say Docker is not available.
ContainerSucceeded ==
  /\ last.op = "containerize.resolved"
  /\ last.data # EmptyBody
  /\ ~includes(last.data.message, <<"Docker", " is not available">>)

\* C21: the port in the result view's `docker run` command and in the
\* `docker run` line of the deployment script is the port sent in the
\* containerize request that produced the result.
C21_ShownPortIsSentPort ==
  ContainerSucceeded
    => LET sent == requests[last.req].body.port
           run == <<"docker run -d -p ", PortText(sent), ":8000 --name ">>
           script == generateDeploymentScript(containerInfo.image_name, port)
       IN /\ includes(dockerRunCommand, run)
          /\ \A k \in LinesStarting(script, "docker run -d -p ") :
               includes(script[k], run)

\* C22: when the displayed result was produced by a download-mode
\* submission, the container metadata panel is not visible.
C22_NoPanelOnDownloadResult ==
  (/\ variant = "full"
   /\ last.op = "handleDeploy"
   /\ last.type = "download"
   /\ last.flowId # <<>>)
    => ~ShowsContainerPanel

\* C23: after a successful container-mode submission the docs link is
\* present exactly when the response carried container_info.api_url, and it
\* is then that api_url followed by "/docs".
C23_DocsIffApiUrl ==
  ContainerSucceeded
    => LET api == IF last.data.container_info.present
                    THEN last.data.container_info.api_url
                    ELSE undefined
       IN /\ docsUrl # null <=> api # undefined
          /\ docsUrl # null => docsUrl = api \o <<"/docs">>

\* C24: a DeployButton click with a flow selected sets the open flag and
\* nothing else: no notification, no request, no change of the dialog's
\* local state.
C24_TriggerOnlyOpens ==
  [][(/\ mountedBy = "DeployButton"
      /\ last'.op = "handleDeployClick"
      /\ currentFlowId # <<>>)
       => /\ open'
          /\ emitted' = <<>>
          /\ ~rejected'
          /\ requests' = requests
          /\ inflight' = inflight
          /\ confirms' = confirms
          /\ dialogState' = dialogState]_vars

\* The DeployButton was clicked with a flow selected while a request of the
\* reopened dialog was still in flight.
C24_Witness ==
  /\ mountedBy = "DeployButton"
  /\ last.op = "handleDeployClick"
  /\ last.flowId # <<>>
  /\ open
  /\ isDeploying
  /\ inflight # {}
  /\ emitted = <<>>

====
